---- MODULE Spec2Model ----
(***************************************************************************)
(* Model of build.py: the argument scan of main, the creation of the       *)
(* output directory, the clang invocation and the process exit status.     *)
(* Positions are 1-based here; position k stands for Python index k - 1.   *)
(***************************************************************************)
EXTENDS Integers, Sequences, FiniteSets, TLC

(* ---------------------------- bounds ----------------------------------- *)

\* Longest argument list explored.
MaxArgs == 3

\* Number of consecutive invocations of the script on one filesystem.
MaxRuns == 2

\* Tokens an argument list is drawn from: the two flags, a plain word (an
\* architecture label or a directory), the same word with a trailing
\* separator, and the empty string.
Tokens == {"-a", "-o", "out", "out/", ""}

RECURSIVE SeqsUpTo(_)
SeqsUpTo(n) ==
    IF n = 0 THEN {<<>>}
    ELSE SeqsUpTo(n - 1) \cup [1..n -> Tokens]

ArgLists == SeqsUpTo(MaxArgs)

(* ------------------------ program constants ---------------------------- *)

DefaultArch == "aarch64"

\* Variant of DefaultOutput: the parent directory only.
DefaultOutputParent == "build"

DefaultOutput == "build/libjava-tree-sitter"

LibName == "libjava-tree-sitter.dylib"

StubSource == "void foo(){}"

(* --------------------------- path helpers ------------------------------ *)

\* The directory a path names: trailing separators do not matter to mkdir.
RECURSIVE Norm(_)
Norm(p) ==
    IF Len(p) > 1 /\ SubSeq(p, Len(p), Len(p)) = "/"
    THEN Norm(SubSeq(p, 1, Len(p) - 1))
    ELSE p

\* The intermediate directories of a normalised path.
Ancestors(p) ==
    { SubSeq(p, 1, k - 1) : k \in { j \in 2..Len(p) : SubSeq(p, j, j) = "/" } }

\* Variant of Join: plain concatenation, no separator inserted.
JoinNoSep(a, b) == a \o b

\* os.path.join(a, b) for a relative b.
Join(a, b) ==
    IF a = "" \/ SubSeq(a, Len(a), Len(a)) = "/"
    THEN a \o b
    ELSE a \o "/" \o b

OutputCandidates == Tokens \cup {DefaultOutput}

DirPaths ==
    LET ds == { Norm(t) : t \in OutputCandidates } \ {""}
    IN  ds \cup UNION { Ancestors(d) : d \in ds }

ArtifactPaths == { Join(t, LibName) : t \in OutputCandidates }

PathUniverse == DirPaths \cup ArtifactPaths

EmptyFs == [p \in PathUniverse |-> "absent"]

\* Filesystems a run may start from: nothing there, or one directory path
\* already taken by a directory or by a regular file.
InitialFs ==
    {EmptyFs} \cup
    { [EmptyFs EXCEPT ![p] = kind] : p \in DirPaths, kind \in {"dir", "file"} }

(* ------------------------------ state ---------------------------------- *)

VARIABLES
    args,         \* sys.argv[1:]
    i,            \* position of the scan loop
    arch,         \* local arch
    output,       \* local output
    out_file,     \* local out_file ("" before it is computed)
    pc,           \* statement the process is at
    fs,           \* filesystem: path -> "absent" | "dir" | "file"
    mkdirResult,  \* "none" before os.makedirs, then "ok" or the error raised
    clangResult,  \* "none" before subprocess.run, then "0" | "nonzero" | "notfound"
    calls,        \* subprocess invocations of this run: [cmd, input]
    stdout,       \* lines printed by this run
    fault,        \* unhandled exception that ended the run, or "none"
    exitCode,     \* process exit status, -1 while running
    run,          \* ordinal of the current invocation
    history       \* what the finished invocations left: exit status, output
                  \* directory and out_file ("" if os.makedirs failed)

vars == <<args, i, arch, output, out_file, pc, fs, mkdirResult, clangResult,
          calls, stdout, fault, exitCode, run, history>>

(* ------------------------- argument scanner ---------------------------- *)

\* args[k]: a list subscript raises IndexError outside the list.
GetItem(as, k) ==
    IF k \in 1..Len(as)
    THEN [fault |-> "none", val |-> as[k]]
    ELSE [fault |-> "IndexError", val |-> ""]

\* Variant of ScanStep: a flag's first value is kept, later ones are dropped.
ScanStepFirstWins(as, k, st) ==
    IF as[k] = "-a" /\ k + 1 <= Len(as)
    THEN IF st.arch = "aarch64" THEN [st EXCEPT !.arch = as[k + 1]] ELSE st
    ELSE IF as[k] = "-o" /\ k + 1 <= Len(as)
    THEN IF st.output = "build/libjava-tree-sitter"
         THEN [st EXCEPT !.output = as[k + 1]] ELSE st
    ELSE st

\* Variant of ScanStep: the two assignment targets are exchanged.
ScanStepSwapped(as, k, st) ==
    IF as[k] = "-a" /\ k + 1 <= Len(as)
    THEN [st EXCEPT !.output = as[k + 1]]
    ELSE IF as[k] = "-o" /\ k + 1 <= Len(as)
    THEN [st EXCEPT !.arch = as[k + 1]]
    ELSE st

\* Variant of ScanStep: a token that is no flag is taken as the output.
ScanStepPositional(as, k, st) ==
    IF as[k] = "-a" /\ k + 1 <= Len(as)
    THEN [st EXCEPT !.arch = as[k + 1]]
    ELSE IF as[k] = "-o" /\ k + 1 <= Len(as)
    THEN [st EXCEPT !.output = as[k + 1]]
    ELSE IF as[k] \notin {"-a", "-o"}
    THEN [st EXCEPT !.output = as[k]]
    ELSE st

\* Variant of ScanStep: the -a branch does not test that a value follows.
ScanStepNoBound(as, k, st) ==
    IF as[k] = "-a"
    THEN LET v == GetItem(as, k + 1)
         IN  IF v.fault = "none" THEN [st EXCEPT !.arch = v.val]
             ELSE [st EXCEPT !.fault = v.fault]
    ELSE IF as[k] = "-o" /\ k + 1 <= Len(as)
    THEN [st EXCEPT !.output = as[k + 1]]
    ELSE st

\* One iteration of the for loop at position k on the locals st.
ScanStep(as, k, st) ==
    IF as[k] = "-a" /\ k + 1 <= Len(as)
    THEN LET v == GetItem(as, k + 1)
         IN  IF v.fault = "none" THEN [st EXCEPT !.arch = v.val]
             ELSE [st EXCEPT !.fault = v.fault]
    ELSE IF as[k] = "-o" /\ k + 1 <= Len(as)
    THEN LET v == GetItem(as, k + 1)
         IN  IF v.fault = "none" THEN [st EXCEPT !.output = v.val]
             ELSE [st EXCEPT !.fault = v.fault]
    ELSE st

InitLocals == [arch |-> DefaultArch, output |-> DefaultOutput, fault |-> "none"]

\* The whole loop, from position k on.
RECURSIVE ScanFrom(_, _, _)
ScanFrom(as, k, st) ==
    IF k > Len(as) \/ st.fault # "none" THEN st
    ELSE ScanFrom(as, k + 1, ScanStep(as, k, st))

ScanAll(as) == ScanFrom(as, 1, InitLocals)

(* ------------------------- directory preparer -------------------------- *)

\* Variant of MakeDirs: exist_ok=False, an existing directory is an error.
MakeDirsNoExistOk(f, p, permitted) ==
    LET n == Norm(p) IN
    IF n = "" THEN [fault |-> "FileNotFoundError", fs |-> f]
    ELSE IF \E a \in Ancestors(n) : f[a] = "file"
    THEN [fault |-> "NotADirectoryError", fs |-> f]
    ELSE IF f[n] # "absent" THEN [fault |-> "FileExistsError", fs |-> f]
    ELSE IF ~permitted THEN [fault |-> "PermissionError", fs |-> f]
    ELSE [fault |-> "none",
          fs |-> [q \in PathUniverse |->
                    IF q = n \/ q \in Ancestors(n) THEN "dir" ELSE f[q]]]

\* Variant of MakeDirs: every OSError is swallowed.
MakeDirsSwallow(f, p, permitted) ==
    LET n == Norm(p) IN
    IF n = "" \/ (\E a \in Ancestors(n) : f[a] = "file") \/ f[n] # "absent"
       \/ ~permitted
    THEN [fault |-> "none", fs |-> f]
    ELSE [fault |-> "none",
          fs |-> [q \in PathUniverse |->
                    IF q = n \/ q \in Ancestors(n) THEN "dir" ELSE f[q]]]

\* os.makedirs(p, exist_ok=True) on filesystem f; permitted says whether the
\* operating system lets the process create the missing directories.
MakeDirs(f, p, permitted) ==
    LET n == Norm(p) IN
    IF n = "" THEN [fault |-> "FileNotFoundError", fs |-> f]
    ELSE IF \E a \in Ancestors(n) : f[a] = "file"
    THEN [fault |-> "NotADirectoryError", fs |-> f]
    ELSE IF f[n] = "file" THEN [fault |-> "FileExistsError", fs |-> f]
    ELSE IF f[n] = "dir" THEN [fault |-> "none", fs |-> f]
    ELSE IF ~permitted THEN [fault |-> "PermissionError", fs |-> f]
    ELSE [fault |-> "none",
          fs |-> [q \in PathUniverse |->
                    IF q = n \/ q \in Ancestors(n) THEN "dir" ELSE f[q]]]

(* --------------------------- compiler invoker -------------------------- *)

\* Variant of ClangCmd: the parsed arch is forwarded to -arch.
ClangCmdWithArch(a, f) ==
    <<"clang", "-arch", a, "-shared", "-o", f, "-x", "c", "-">>

\* The argv handed to subprocess.run; the parsed arch a is not part of it.
ClangCmd(a, f) ==
    <<"clang", "-arch", "arm64", "-shared", "-o", f, "-x", "c", "-">>

\* Variant of CheckRaises: check=False, the return code is not looked at.
CheckRaisesNever(status) == FALSE

\* check=True: does the returned status raise CalledProcessError?
CheckRaises(status) == status # "0"

FirstMessage(a, f) == "Compiling dummy native library for " \o a \o " -> " \o f

LastMessage == "Done."

(* ------------------------------ actions -------------------------------- *)

Init ==
    /\ args \in ArgLists
    /\ i = 1
    /\ arch = DefaultArch
    /\ output = DefaultOutput
    /\ out_file = ""
    /\ pc = "scan"
    /\ fs \in InitialFs
    /\ mkdirResult = "none"
    /\ clangResult = "none"
    /\ calls = <<>>
    /\ stdout = <<>>
    /\ fault = "none"
    /\ exitCode = -1
    /\ run = 1
    /\ history = <<>>

\* for i, arg in enumerate(args): one iteration.
ScanIter ==
    /\ pc = "scan"
    /\ i <= Len(args)
    /\ LET st == ScanStep(args, i, [arch |-> arch, output |-> output, fault |-> "none"])
       IN  /\ arch' = st.arch
           /\ output' = st.output
           /\ fault' = st.fault
           /\ IF st.fault = "none"
              THEN /\ i' = i + 1
                   /\ pc' = "scan"
                   /\ exitCode' = exitCode
              ELSE /\ i' = i
                   /\ pc' = "exited"
                   /\ exitCode' = 1
    /\ UNCHANGED <<args, out_file, fs, mkdirResult, clangResult, calls, stdout,
                   run, history>>

\* The loop is exhausted.
ScanEnd ==
    /\ pc = "scan"
    /\ i > Len(args)
    /\ pc' = "makedirs"
    /\ UNCHANGED <<args, i, arch, output, out_file, fs, mkdirResult, clangResult,
                   calls, stdout, fault, exitCode, run, history>>

\* os.makedirs(output, exist_ok=True)
DoMakeDirs ==
    /\ pc = "makedirs"
    /\ \E permitted \in BOOLEAN :
         LET r == MakeDirs(fs, output, permitted)
         IN  /\ fs' = r.fs
             /\ IF r.fault = "none"
                THEN /\ mkdirResult' = "ok"
                     /\ pc' = "join"
                     /\ UNCHANGED <<fault, exitCode>>
                ELSE /\ mkdirResult' = r.fault
                     /\ fault' = r.fault
                     /\ pc' = "exited"
                     /\ exitCode' = 1
    /\ UNCHANGED <<args, i, arch, output, out_file, clangResult, calls, stdout,
                   run, history>>

\* out_file = os.path.join(output, "libjava-tree-sitter.dylib")
JoinPath ==
    /\ pc = "join"
    /\ out_file' = Join(output, LibName)
    /\ pc' = "print_compiling"
    /\ UNCHANGED <<args, i, arch, output, fs, mkdirResult, clangResult, calls,
                   stdout, fault, exitCode, run, history>>

\* print(f"... Compiling dummy native library for {arch} -> {out_file}")
PrintCompiling ==
    /\ pc = "print_compiling"
    /\ stdout' = Append(stdout, FirstMessage(arch, out_file))
    /\ pc' = "run"
    /\ UNCHANGED <<args, i, arch, output, out_file, fs, mkdirResult, clangResult,
                   calls, fault, exitCode, run, history>>

\* subprocess.run([...], input=b"void foo(){}", ...): the child is started
\* and waited for.  The compiler is found and exits 0 (the artifact is
\* written), is found and exits non-zero, or cannot be started.
RunClang ==
    /\ pc = "run"
    /\ \E status \in {"0", "nonzero", "notfound"} :
         /\ clangResult' = status
         /\ calls' = Append(calls, [cmd |-> ClangCmd(arch, out_file),
                                    input |-> StubSource])
         /\ fs' = IF status = "0" THEN [fs EXCEPT ![out_file] = "file"] ELSE fs
         /\ IF status = "notfound"
            THEN /\ fault' = "FileNotFoundError"
                 /\ pc' = "exited"
                 /\ exitCode' = 1
            ELSE /\ pc' = "check"
                 /\ UNCHANGED <<fault, exitCode>>
    /\ UNCHANGED <<args, i, arch, output, out_file, mkdirResult, stdout, run,
                   history>>

\* check=True: a non-zero return code raises CalledProcessError.
CheckReturn ==
    /\ pc = "check"
    /\ IF CheckRaises(clangResult)
       THEN /\ fault' = "CalledProcessError"
            /\ pc' = "exited"
            /\ exitCode' = 1
       ELSE /\ pc' = "print_done"
            /\ UNCHANGED <<fault, exitCode>>
    /\ UNCHANGED <<args, i, arch, output, out_file, fs, mkdirResult, clangResult,
                   calls, stdout, run, history>>

\* print("... Done.") and the normal return of main.
PrintDone ==
    /\ pc = "print_done"
    /\ stdout' = Append(stdout, LastMessage)
    /\ pc' = "exited"
    /\ exitCode' = 0
    /\ UNCHANGED <<args, i, arch, output, out_file, fs, mkdirResult, clangResult,
                   calls, fault, run, history>>

\* The script is started again with the same arguments on the filesystem the
\* previous invocation left behind; nothing else is retained.
Rerun ==
    /\ pc = "exited"
    /\ run < MaxRuns
    /\ history' = Append(history, [exitCode |-> exitCode, output |-> output,
                                   out_file |-> out_file])
    /\ run' = run + 1
    /\ i' = 1
    /\ arch' = DefaultArch
    /\ output' = DefaultOutput
    /\ out_file' = ""
    /\ pc' = "scan"
    /\ mkdirResult' = "none"
    /\ clangResult' = "none"
    /\ calls' = <<>>
    /\ stdout' = <<>>
    /\ fault' = "none"
    /\ exitCode' = -1
    /\ UNCHANGED <<args, fs>>

Next ==
    \/ ScanIter
    \/ ScanEnd
    \/ DoMakeDirs
    \/ JoinPath
    \/ PrintCompiling
    \/ RunClang
    \/ CheckReturn
    \/ PrintDone
    \/ Rerun

Spec == Init /\ [][Next]_vars

TypeOK ==
    /\ args \in ArgLists
    /\ i \in 1..(Len(args) + 1)
    /\ pc \in {"scan", "makedirs", "join", "print_compiling", "run", "check",
               "print_done", "exited"}
    /\ fs \in [PathUniverse -> {"absent", "dir", "file"}]
    /\ exitCode \in {-1, 0, 1}
    /\ run \in 1..MaxRuns
    /\ Len(history) = run - 1
    /\ Len(calls) <= 1

(* ------------------------------ properties ----------------------------- *)

Flags == {"-a", "-o"}

\* Positions of flag that have a following token.
ValuedAt(as, flag) == { k \in 1..(Len(as) - 1) : as[k] = flag }

Max(S) == CHOOSE m \in S : \A n \in S : n <= m

\* The output path argument of the first compiler invocation of this run.
InvokedOutFile == calls[1].cmd[6]

EndsWithSep(p) == Len(p) > 0 /\ SubSeq(p, Len(p), Len(p)) = "/"

\* Where the artifact for output directory p lies.
ArtifactIn(p) == IF EndsWithSep(p) THEN p \o LibName ELSE p \o "/" \o LibName

\* C1 as stated: once the scan is over, arch equals the token after every
\* -a that has a following token.
C1_Original ==
    pc # "scan" =>
        \A k \in ValuedAt(args, "-a") : arch = args[k + 1]

\* C1 amended: once the scan is over, arch equals the token X that follows
\* a -a, provided no later -a has a following token.
C1_ArchIsLastValue ==
    pc # "scan" =>
        \A k \in ValuedAt(args, "-a") :
            (\A j \in ValuedAt(args, "-a") : j <= k) => arch = args[k + 1]

C1_Witness ==
    /\ pc = "makedirs"
    /\ \E k \in ValuedAt(args, "-a") : \E j \in ValuedAt(args, "-a") :
          k < j /\ arch = args[j + 1] /\ arch # args[k + 1]

\* C2 as stated: the output path handed to the compiler, and the artifact
\* of a successful run, is P joined with the library name for every -o P.
C2_Original ==
    Len(calls) > 0 =>
        \A k \in ValuedAt(args, "-o") :
            /\ InvokedOutFile = ArtifactIn(args[k + 1])
            /\ exitCode = 0 => fs[ArtifactIn(args[k + 1])] = "file"

\* C2 amended: the output path handed to the compiler, and the artifact of
\* a successful run, is P joined with the library name, for the -o P that
\* no later -o with a following token comes after.
C2_ArtifactUnderLastValue ==
    Len(calls) > 0 =>
        \A k \in ValuedAt(args, "-o") :
            (\A j \in ValuedAt(args, "-o") : j <= k) =>
                /\ InvokedOutFile = ArtifactIn(args[k + 1])
                /\ exitCode = 0 => fs[ArtifactIn(args[k + 1])] = "file"

C2_Witness ==
    /\ exitCode = 0
    /\ Len(calls) > 0
    /\ \E k \in ValuedAt(args, "-o") : \E j \in ValuedAt(args, "-o") :
          /\ k < j
          /\ args[j + 1] # args[k + 1]
          /\ InvokedOutFile = args[j + 1] \o "/" \o LibName
          /\ fs[args[j + 1] \o "/" \o LibName] = "file"

NoFlags(as) == \A k \in 1..Len(as) : as[k] \notin Flags

\* C3: when neither -a nor -o occurs among the arguments, the scan ends
\* with the default arch and output, and the path computed for, and handed
\* to, the compiler is build/libjava-tree-sitter/libjava-tree-sitter.dylib.
C3_DefaultsWithoutFlags ==
    NoFlags(args) =>
        /\ pc # "scan" => arch = "aarch64" /\ output = "build/libjava-tree-sitter"
        /\ pc \in {"print_compiling", "run"} =>
               out_file = "build/libjava-tree-sitter/libjava-tree-sitter.dylib"
        /\ Len(calls) > 0 =>
               InvokedOutFile = "build/libjava-tree-sitter/libjava-tree-sitter.dylib"

C3_Witness ==
    /\ NoFlags(args)
    /\ Len(args) = MaxArgs
    /\ Len(calls) > 0
    /\ exitCode = 0

\* The value of a flag after the first n positions have been visited.
ValueAfter(as, n, flag, default) ==
    LET S == { k \in ValuedAt(as, flag) : k <= n }
    IN  IF S = {} THEN default ELSE as[Max(S) + 1]

\* C10: the scan visits every position in turn; after the first i - 1
\* positions, and so after the scan, arch is the token following the last
\* -a that has a following token (else the default), and output likewise
\* for -o, whatever that following token is.
C10_LastOccurrenceWins ==
    /\ arch = ValueAfter(args, i - 1, "-a", DefaultArch)
    /\ output = ValueAfter(args, i - 1, "-o", DefaultOutput)
    /\ pc \notin {"scan", "exited"} => i = Len(args) + 1

C10_Witness ==
    /\ pc = "makedirs"
    /\ \E k \in ValuedAt(args, "-o") : \E j \in ValuedAt(args, "-o") :
          /\ k < j
          /\ args[k + 1] \in Flags
          /\ output = args[j + 1]
          /\ output # args[k + 1]

Front(as) == SubSeq(as, 1, Len(as) - 1)

SetAt(as, k, t) == [as EXCEPT ![k] = t]

InsertAt(as, pos, t) == SubSeq(as, 1, pos - 1) \o <<t>> \o SubSeq(as, pos, Len(as))

\* The compiler invocation a run builds from the scanned locals r.
Invocation(r) ==
    [cmd |-> ClangCmd(r.arch, Join(r.output, LibName)), input |-> StubSource]

\* This run agrees with the scan result r: the same arch and output, no
\* error from either scan, and the same compiler invocation.
SameRunAs(r) ==
    /\ r.fault = "none"
    /\ fault # "IndexError"
    /\ arch = r.arch
    /\ output = r.output
    /\ Len(calls) > 0 => calls[1] = Invocation(r)

EndsWithArchFlag(as) == Len(as) > 0 /\ as[Len(as)] = "-a"

\* C4 as stated: a run on a list whose final token is -a behaves like the
\* run on the list without that final token.
C4_Original ==
    (pc # "scan" /\ EndsWithArchFlag(args)) => SameRunAs(ScanAll(Front(args)))

\* C4 amended: a run on a list whose final token is -a, and whose token
\* before it (if any) is neither -a nor -o, behaves like the run on the
\* list without that final token, and the scan raises no error.
C4_TrailingArchFlagIgnored ==
    (/\ pc # "scan"
     /\ EndsWithArchFlag(args)
     /\ Len(args) > 1 => args[Len(args) - 1] \notin Flags)
        => SameRunAs(ScanAll(Front(args)))

C4_Witness ==
    /\ EndsWithArchFlag(args)
    /\ Len(args) = 3
    /\ args[1] = "-o"
    /\ args[2] \notin Flags
    /\ output = args[2]
    /\ arch = DefaultArch
    /\ Len(calls) > 0
    /\ exitCode = 0

\* C5 as stated: replacing the token that follows a -a by any other token
\* leaves the compiler invocation (argv and stub input) the same.
C5_Original ==
    Len(calls) > 0 =>
        \A k \in ValuedAt(args, "-a") : \A t \in Tokens :
            calls[1] = Invocation(ScanAll(SetAt(args, k + 1, t)))

\* C5 amended: replacing the token that follows a -a by any other token,
\* neither the old nor the new token being -o, leaves the compiler
\* invocation (argv with -arch arm64 and the output path, stub input) the
\* same.
C5_ArchValueNotForwarded ==
    Len(calls) > 0 =>
        \A k \in ValuedAt(args, "-a") : \A t \in Tokens \ {"-o"} :
            args[k + 1] # "-o" =>
                /\ calls[1] = Invocation(ScanAll(SetAt(args, k + 1, t)))
                /\ calls[1].cmd[3] = "arm64"

C5_Witness ==
    /\ Len(calls) > 0
    /\ \E k \in ValuedAt(args, "-a") :
          /\ args[k + 1] \notin Flags
          /\ arch = args[k + 1]
    /\ calls[1].cmd[3] # arch

Range(q) == { q[n] : n \in 1..Len(q) }

CompilerFailed == clangResult \in {"nonzero", "notfound"}

C6_State ==
    /\ exitCode = 0 => pc = "exited"
    /\ pc = "exited" => (exitCode = 0 <=> (mkdirResult = "ok" /\ clangResult = "0"))
    /\ CompilerFailed =>
          /\ pc \in {"check", "exited"}
          /\ pc = "exited" => exitCode = 1
          /\ LastMessage \notin Range(stdout)
          /\ Len(calls) = 1

C6_Step ==
    CompilerFailed =>
        /\ fs' = fs
        /\ Len(calls') <= Len(calls)
        /\ pc = "check" => pc' = "exited"

\* C6: the exit status is 0 exactly when os.makedirs succeeded and the
\* compiler exited 0; once the compiler has exited non-zero or could not be
\* started, the run ends with status 1 at its next step, never prints the
\* success message, never invokes the compiler again and never touches the
\* filesystem.
C6_ExitStatus == [](C6_State) /\ [][C6_Step]_vars

C6_Witness ==
    /\ pc = "exited"
    /\ clangResult = "nonzero"
    /\ fault = "CalledProcessError"
    /\ exitCode = 1
    /\ mkdirResult = "ok"

\* C7: after an invocation that succeeded, a later invocation with the same
\* arguments does not fail in os.makedirs, finds the directory and the
\* artifact still in place, hands the compiler the same output path, and
\* exits 0 when the compiler succeeds.
C7_SecondRunSucceeds ==
    \A r \in 1..Len(history) :
        history[r].exitCode = 0 =>
            /\ mkdirResult \in {"none", "ok"}
            /\ fs[Norm(history[r].output)] = "dir"
            /\ fs[history[r].out_file] = "file"
            /\ Len(calls) > 0 => InvokedOutFile = history[r].out_file
            /\ (pc = "exited" /\ clangResult = "0") => exitCode = 0

C7_Witness ==
    /\ run = 2
    /\ history[1].exitCode = 0
    /\ \E k \in ValuedAt(args, "-o") : output = args[k + 1]
    /\ mkdirResult = "ok"
    /\ exitCode = 0
    /\ out_file = history[1].out_file

\* C8 as stated: inserting a token that is neither -a nor -o at any
\* position leaves the scanned arch and output as they are, without error.
C8_Original ==
    pc # "scan" =>
        \A pos \in 1..(Len(args) + 1) : \A t \in Tokens \ Flags :
            LET r == ScanAll(InsertAt(args, pos, t))
            IN  r.fault = "none" /\ r.arch = arch /\ r.output = output

\* C8 amended: inserting a token that is neither -a nor -o at any position
\* that does not directly follow a -a or -o leaves the scanned arch and
\* output as they are, without error.
C8_UnrecognizedIgnored ==
    pc # "scan" =>
        \A pos \in 1..(Len(args) + 1) : \A t \in Tokens \ Flags :
            (pos = 1 \/ args[pos - 1] \notin Flags) =>
                LET r == ScanAll(InsertAt(args, pos, t))
                IN  r.fault = "none" /\ r.arch = arch /\ r.output = output

C8_Witness ==
    /\ pc = "makedirs"
    /\ \E k \in ValuedAt(args, "-a") :
          /\ args[k + 1] \notin Flags
          /\ arch = args[k + 1]
          /\ \E pos \in 2..(Len(args) + 1) :
                /\ args[pos - 1] \notin Flags
                /\ ScanAll(InsertAt(args, pos, "out/")).arch = arch

\* C9: os.makedirs runs only after the scan has visited every position;
\* the compiler is invoked only after os.makedirs succeeded, with the output
\* directory present; and when os.makedirs fails the run has ended with
\* status 1 without any compiler invocation.
C9_ParsePrepareInvoke ==
    /\ mkdirResult # "none" => i = Len(args) + 1
    /\ (Len(calls) > 0 \/ clangResult # "none" \/ pc \in {"run", "check", "print_done"})
          => (mkdirResult = "ok" /\ fs[Norm(output)] = "dir")
    /\ mkdirResult \notin {"none", "ok"} =>
          /\ pc = "exited"
          /\ exitCode = 1
          /\ calls = <<>>
          /\ clangResult = "none"

C9_Witness ==
    /\ run = 2
    /\ history[1].exitCode = 1
    /\ history[1].out_file = ""
    /\ mkdirResult = "ok"
    /\ Len(calls) > 0

====
